---- MODULE Spec2Model ----
(***************************************************************************)
(* Model of Bio/Align/tabular.py: the parser for tabular BLAST / FASTA     *)
(* output.  Strings are sequences of one-character strings, so that the    *)
(* regular-expression tokenisers, int(), rstrip(), split("\t") and         *)
(* replace("-", "") are computed character by character as the code does.  *)
(***************************************************************************)
EXTENDS Integers, Sequences, FiniteSets, TLC

\* ------------------------------------------------------------------ bounds
\* Longest BTOP string enumerated exhaustively over BtopAlphabet.
MaxBtopLen == 4
\* Longest CIGAR string enumerated exhaustively over CigarAlphabet.
MaxCigarLen == 4

\* ------------------------------------------------------------- characters
\* A string is a sequence of characters.  A character is a one-character
\* string; a character beyond U+00FF is written by its code point, as in
\* "U+0663" (ARABIC-INDIC DIGIT THREE).

\* Optional values: None is the empty tuple, a present value is a 1-tuple.
None == <<>>
Some(v) == <<v>>
Get(o) == o[1]

TAB == "\t"
NL == "\n"
\* U+000B, U+001C..U+001F, U+0085 and U+00A0.
VT == ""
FS == ""
GS == ""
RS == ""
US == ""
NEL == ""
NBSP == " "

\* The separators U+001C..U+001F: whitespace to str.rstrip(), not to int()
\* and float().
Separators == {FS, GS, RS, US}

\* str.isspace(): the characters line.rstrip() removes.
Whitespace ==
    {TAB, NL, VT, "\f", "\r", " ", NEL, NBSP, "U+1680", "U+2000", "U+2001",
     "U+2002", "U+2003", "U+2004", "U+2005", "U+2006", "U+2007", "U+2008",
     "U+2009", "U+200A", "U+2028", "U+2029", "U+202F", "U+205F", "U+3000"}
        \cup Separators

\* The decimal digits of Unicode (category Nd), which \d matches and int()
\* and float() convert: DecimalDigits[v + 1] holds the digits of value v.
DecimalDigits ==
    << {"0", "U+0660", "U+06F0", "U+07C0", "U+0966", "U+09E6", "U+0A66",
        "U+0AE6", "U+0B66", "U+0BE6", "U+0C66", "U+0CE6", "U+0D66", "U+0DE6",
        "U+0E50", "U+0ED0", "U+0F20", "U+1040", "U+1090", "U+17E0", "U+1810",
        "U+1946", "U+19D0", "U+1A80", "U+1A90", "U+1B50", "U+1BB0", "U+1C40",
        "U+1C50", "U+A620", "U+A8D0", "U+A900", "U+A9D0", "U+A9F0", "U+AA50",
        "U+ABF0", "U+FF10", "U+104A0", "U+10D30", "U+11066", "U+110F0",
        "U+11136", "U+111D0", "U+112F0", "U+11450", "U+114D0", "U+11650",
        "U+116C0", "U+11730", "U+118E0", "U+11950", "U+11C50", "U+11D50",
        "U+11DA0", "U+16A60", "U+16AC0", "U+16B50", "U+1D7CE", "U+1D7D8",
        "U+1D7E2", "U+1D7EC", "U+1D7F6", "U+1E140", "U+1E2F0", "U+1E950",
        "U+1FBF0"},
       {"1", "U+0661", "U+06F1", "U+07C1", "U+0967", "U+09E7", "U+0A67",
        "U+0AE7", "U+0B67", "U+0BE7", "U+0C67", "U+0CE7", "U+0D67", "U+0DE7",
        "U+0E51", "U+0ED1", "U+0F21", "U+1041", "U+1091", "U+17E1", "U+1811",
        "U+1947", "U+19D1", "U+1A81", "U+1A91", "U+1B51", "U+1BB1", "U+1C41",
        "U+1C51", "U+A621", "U+A8D1", "U+A901", "U+A9D1", "U+A9F1", "U+AA51",
        "U+ABF1", "U+FF11", "U+104A1", "U+10D31", "U+11067", "U+110F1",
        "U+11137", "U+111D1", "U+112F1", "U+11451", "U+114D1", "U+11651",
        "U+116C1", "U+11731", "U+118E1", "U+11951", "U+11C51", "U+11D51",
        "U+11DA1", "U+16A61", "U+16AC1", "U+16B51", "U+1D7CF", "U+1D7D9",
        "U+1D7E3", "U+1D7ED", "U+1D7F7", "U+1E141", "U+1E2F1", "U+1E951",
        "U+1FBF1"},
       {"2", "U+0662", "U+06F2", "U+07C2", "U+0968", "U+09E8", "U+0A68",
        "U+0AE8", "U+0B68", "U+0BE8", "U+0C68", "U+0CE8", "U+0D68", "U+0DE8",
        "U+0E52", "U+0ED2", "U+0F22", "U+1042", "U+1092", "U+17E2", "U+1812",
        "U+1948", "U+19D2", "U+1A82", "U+1A92", "U+1B52", "U+1BB2", "U+1C42",
        "U+1C52", "U+A622", "U+A8D2", "U+A902", "U+A9D2", "U+A9F2", "U+AA52",
        "U+ABF2", "U+FF12", "U+104A2", "U+10D32", "U+11068", "U+110F2",
        "U+11138", "U+111D2", "U+112F2", "U+11452", "U+114D2", "U+11652",
        "U+116C2", "U+11732", "U+118E2", "U+11952", "U+11C52", "U+11D52",
        "U+11DA2", "U+16A62", "U+16AC2", "U+16B52", "U+1D7D0", "U+1D7DA",
        "U+1D7E4", "U+1D7EE", "U+1D7F8", "U+1E142", "U+1E2F2", "U+1E952",
        "U+1FBF2"},
       {"3", "U+0663", "U+06F3", "U+07C3", "U+0969", "U+09E9", "U+0A69",
        "U+0AE9", "U+0B69", "U+0BE9", "U+0C69", "U+0CE9", "U+0D69", "U+0DE9",
        "U+0E53", "U+0ED3", "U+0F23", "U+1043", "U+1093", "U+17E3", "U+1813",
        "U+1949", "U+19D3", "U+1A83", "U+1A93", "U+1B53", "U+1BB3", "U+1C43",
        "U+1C53", "U+A623", "U+A8D3", "U+A903", "U+A9D3", "U+A9F3", "U+AA53",
        "U+ABF3", "U+FF13", "U+104A3", "U+10D33", "U+11069", "U+110F3",
        "U+11139", "U+111D3", "U+112F3", "U+11453", "U+114D3", "U+11653",
        "U+116C3", "U+11733", "U+118E3", "U+11953", "U+11C53", "U+11D53",
        "U+11DA3", "U+16A63", "U+16AC3", "U+16B53", "U+1D7D1", "U+1D7DB",
        "U+1D7E5", "U+1D7EF", "U+1D7F9", "U+1E143", "U+1E2F3", "U+1E953",
        "U+1FBF3"},
       {"4", "U+0664", "U+06F4", "U+07C4", "U+096A", "U+09EA", "U+0A6A",
        "U+0AEA", "U+0B6A", "U+0BEA", "U+0C6A", "U+0CEA", "U+0D6A", "U+0DEA",
        "U+0E54", "U+0ED4", "U+0F24", "U+1044", "U+1094", "U+17E4", "U+1814",
        "U+194A", "U+19D4", "U+1A84", "U+1A94", "U+1B54", "U+1BB4", "U+1C44",
        "U+1C54", "U+A624", "U+A8D4", "U+A904", "U+A9D4", "U+A9F4", "U+AA54",
        "U+ABF4", "U+FF14", "U+104A4", "U+10D34", "U+1106A", "U+110F4",
        "U+1113A", "U+111D4", "U+112F4", "U+11454", "U+114D4", "U+11654",
        "U+116C4", "U+11734", "U+118E4", "U+11954", "U+11C54", "U+11D54",
        "U+11DA4", "U+16A64", "U+16AC4", "U+16B54", "U+1D7D2", "U+1D7DC",
        "U+1D7E6", "U+1D7F0", "U+1D7FA", "U+1E144", "U+1E2F4", "U+1E954",
        "U+1FBF4"},
       {"5", "U+0665", "U+06F5", "U+07C5", "U+096B", "U+09EB", "U+0A6B",
        "U+0AEB", "U+0B6B", "U+0BEB", "U+0C6B", "U+0CEB", "U+0D6B", "U+0DEB",
        "U+0E55", "U+0ED5", "U+0F25", "U+1045", "U+1095", "U+17E5", "U+1815",
        "U+194B", "U+19D5", "U+1A85", "U+1A95", "U+1B55", "U+1BB5", "U+1C45",
        "U+1C55", "U+A625", "U+A8D5", "U+A905", "U+A9D5", "U+A9F5", "U+AA55",
        "U+ABF5", "U+FF15", "U+104A5", "U+10D35", "U+1106B", "U+110F5",
        "U+1113B", "U+111D5", "U+112F5", "U+11455", "U+114D5", "U+11655",
        "U+116C5", "U+11735", "U+118E5", "U+11955", "U+11C55", "U+11D55",
        "U+11DA5", "U+16A65", "U+16AC5", "U+16B55", "U+1D7D3", "U+1D7DD",
        "U+1D7E7", "U+1D7F1", "U+1D7FB", "U+1E145", "U+1E2F5", "U+1E955",
        "U+1FBF5"},
       {"6", "U+0666", "U+06F6", "U+07C6", "U+096C", "U+09EC", "U+0A6C",
        "U+0AEC", "U+0B6C", "U+0BEC", "U+0C6C", "U+0CEC", "U+0D6C", "U+0DEC",
        "U+0E56", "U+0ED6", "U+0F26", "U+1046", "U+1096", "U+17E6", "U+1816",
        "U+194C", "U+19D6", "U+1A86", "U+1A96", "U+1B56", "U+1BB6", "U+1C46",
        "U+1C56", "U+A626", "U+A8D6", "U+A906", "U+A9D6", "U+A9F6", "U+AA56",
        "U+ABF6", "U+FF16", "U+104A6", "U+10D36", "U+1106C", "U+110F6",
        "U+1113C", "U+111D6", "U+112F6", "U+11456", "U+114D6", "U+11656",
        "U+116C6", "U+11736", "U+118E6", "U+11956", "U+11C56", "U+11D56",
        "U+11DA6", "U+16A66", "U+16AC6", "U+16B56", "U+1D7D4", "U+1D7DE",
        "U+1D7E8", "U+1D7F2", "U+1D7FC", "U+1E146", "U+1E2F6", "U+1E956",
        "U+1FBF6"},
       {"7", "U+0667", "U+06F7", "U+07C7", "U+096D", "U+09ED", "U+0A6D",
        "U+0AED", "U+0B6D", "U+0BED", "U+0C6D", "U+0CED", "U+0D6D", "U+0DED",
        "U+0E57", "U+0ED7", "U+0F27", "U+1047", "U+1097", "U+17E7", "U+1817",
        "U+194D", "U+19D7", "U+1A87", "U+1A97", "U+1B57", "U+1BB7", "U+1C47",
        "U+1C57", "U+A627", "U+A8D7", "U+A907", "U+A9D7", "U+A9F7", "U+AA57",
        "U+ABF7", "U+FF17", "U+104A7", "U+10D37", "U+1106D", "U+110F7",
        "U+1113D", "U+111D7", "U+112F7", "U+11457", "U+114D7", "U+11657",
        "U+116C7", "U+11737", "U+118E7", "U+11957", "U+11C57", "U+11D57",
        "U+11DA7", "U+16A67", "U+16AC7", "U+16B57", "U+1D7D5", "U+1D7DF",
        "U+1D7E9", "U+1D7F3", "U+1D7FD", "U+1E147", "U+1E2F7", "U+1E957",
        "U+1FBF7"},
       {"8", "U+0668", "U+06F8", "U+07C8", "U+096E", "U+09EE", "U+0A6E",
        "U+0AEE", "U+0B6E", "U+0BEE", "U+0C6E", "U+0CEE", "U+0D6E", "U+0DEE",
        "U+0E58", "U+0ED8", "U+0F28", "U+1048", "U+1098", "U+17E8", "U+1818",
        "U+194E", "U+19D8", "U+1A88", "U+1A98", "U+1B58", "U+1BB8", "U+1C48",
        "U+1C58", "U+A628", "U+A8D8", "U+A908", "U+A9D8", "U+A9F8", "U+AA58",
        "U+ABF8", "U+FF18", "U+104A8", "U+10D38", "U+1106E", "U+110F8",
        "U+1113E", "U+111D8", "U+112F8", "U+11458", "U+114D8", "U+11658",
        "U+116C8", "U+11738", "U+118E8", "U+11958", "U+11C58", "U+11D58",
        "U+11DA8", "U+16A68", "U+16AC8", "U+16B58", "U+1D7D6", "U+1D7E0",
        "U+1D7EA", "U+1D7F4", "U+1D7FE", "U+1E148", "U+1E2F8", "U+1E958",
        "U+1FBF8"},
       {"9", "U+0669", "U+06F9", "U+07C9", "U+096F", "U+09EF", "U+0A6F",
        "U+0AEF", "U+0B6F", "U+0BEF", "U+0C6F", "U+0CEF", "U+0D6F", "U+0DEF",
        "U+0E59", "U+0ED9", "U+0F29", "U+1049", "U+1099", "U+17E9", "U+1819",
        "U+194F", "U+19D9", "U+1A89", "U+1A99", "U+1B59", "U+1BB9", "U+1C49",
        "U+1C59", "U+A629", "U+A8D9", "U+A909", "U+A9D9", "U+A9F9", "U+AA59",
        "U+ABF9", "U+FF19", "U+104A9", "U+10D39", "U+1106F", "U+110F9",
        "U+1113F", "U+111D9", "U+112F9", "U+11459", "U+114D9", "U+11659",
        "U+116C9", "U+11739", "U+118E9", "U+11959", "U+11C59", "U+11D59",
        "U+11DA9", "U+16A69", "U+16AC9", "U+16B59", "U+1D7D7", "U+1D7E1",
        "U+1D7EB", "U+1D7F5", "U+1D7FF", "U+1E149", "U+1E2F9", "U+1E959",
        "U+1FBF9"} >>

Digits == UNION {DecimalDigits[v + 1] : v \in 0..9}

UpperLetters ==
    {"A", "B", "C", "D", "E", "F", "G", "H", "I", "J", "K", "L", "M",
     "N", "O", "P", "Q", "R", "S", "T", "U", "V", "W", "X", "Y", "Z"}

\* The character class [A-Z-*] of the BTOP regular expression.
BtopPairChars == UpperLetters \cup {"-", "*"}

\* The alternatives M|D|I of the CIGAR regular expression.
CigarOps == {"M", "D", "I"}

DigitVal(c) == CHOOSE v \in 0..9 : c \in DecimalDigits[v + 1]

Last(s) == s[Len(s)]

AllDigits(s) == Len(s) > 0 /\ \A i \in 1..Len(s) : s[i] \in Digits

RECURSIVE DecimalValue(_)
DecimalValue(s) ==
    IF s = <<>> THEN 0
    ELSE 10 * DecimalValue(SubSeq(s, 1, Len(s) - 1)) + DigitVal(s[Len(s)])

\* line.rstrip(): trailing whitespace, tabs included, is removed.
RECURSIVE rstrip(_)
rstrip(s) ==
    IF s # <<>> /\ Last(s) \in Whitespace THEN rstrip(SubSeq(s, 1, Len(s) - 1))
    ELSE s

\* int() and float() skip the whitespace at both ends of their argument.
RECURSIVE skip_space(_)
skip_space(s) ==
    IF s # <<>> /\ Head(s) \in Whitespace \ Separators THEN skip_space(Tail(s))
    ELSE IF s # <<>> /\ Last(s) \in Whitespace \ Separators
         THEN skip_space(SubSeq(s, 1, Len(s) - 1))
    ELSE s

\* A numeral may group its digits: every underscore stands between two digits.
Grouped(t) ==
    \A i \in 1..Len(t) :
        t[i] = "_" => /\ 1 < i /\ i < Len(t)
                      /\ t[i - 1] \in Digits /\ t[i + 1] \in Digits
NotUnderscore(c) == c # "_"
Ungrouped(t) == SelectSeq(t, NotUnderscore)
Unsigned(t) == IF t # <<>> /\ Head(t) \in {"+", "-"} THEN Tail(t) ELSE t

\* sys.int_max_str_digits, as the interpreter sets it by default: int() raises
\* ValueError on a numeral of more digits.
int_max_str_digits == 4300

\* int(text) succeeds on optional whitespace, an optional sign and at most
\* int_max_str_digits decimal digits, grouped or not, and raises ValueError
\* otherwise.
IsInt(s) ==
    LET t == skip_space(s)
        digits == Ungrouped(Unsigned(t))
    IN  Grouped(t) /\ AllDigits(digits) /\ Len(digits) <= int_max_str_digits

int(s) ==
    LET t == skip_space(s)
        n == DecimalValue(Ungrouped(Unsigned(t)))
    IN  IF Head(t) = "-" THEN 0 - n ELSE n

\* Number of leading decimal digits of s: the greedy match of \d+.
DigitRun(s) ==
    LET stops == {i \in 1..Len(s) : s[i] \notin Digits}
    IN  IF stops = {} THEN Len(s)
        ELSE (CHOOSE i \in stops : \A j \in stops : i <= j) - 1

\* ------------------------------------------------------------ tokenisers
\* re.findall("([A-Z-*]{2}|\\d+)", btop): at each position the two-character
\* alternative is tried first, then the digit run; a character that starts
\* neither is skipped.
RECURSIVE btop_tokens(_)
btop_tokens(s) ==
    IF s = <<>> THEN <<>>
    ELSE IF Len(s) >= 2 /\ s[1] \in BtopPairChars /\ s[2] \in BtopPairChars
         THEN <<SubSeq(s, 1, 2)>> \o btop_tokens(SubSeq(s, 3, Len(s)))
    ELSE IF s[1] \in Digits
         THEN <<SubSeq(s, 1, DigitRun(s))>>
                  \o btop_tokens(SubSeq(s, DigitRun(s) + 1, Len(s)))
    ELSE btop_tokens(Tail(s))

\* re.findall("(M|D|I|\\d+)", cigar)
RECURSIVE cigar_tokens(_)
cigar_tokens(s) ==
    IF s = <<>> THEN <<>>
    ELSE IF s[1] \in CigarOps
         THEN <<SubSeq(s, 1, 1)>> \o cigar_tokens(Tail(s))
    ELSE IF s[1] \in Digits
         THEN <<SubSeq(s, 1, DigitRun(s))>>
                  \o cigar_tokens(SubSeq(s, DigitRun(s) + 1, Len(s)))
    ELSE cigar_tokens(Tail(s))

\* ------------------------------------------------------------ parse_btop
\* class State
MATCH == "MATCH"
QUERY_GAP == "QUERY_GAP"
TARGET_GAP == "TARGET_GAP"
NONE == "NONE"

\* lst[-1] += n
AddToLast(s, n) == [s EXCEPT ![Len(s)] = @ + n]

\* A variant of the loop body that never merges: every token appends a
\* column.
btop_step_no_merge(acc, token) ==
    LET t == acc.target_coordinates
        q == acc.query_coordinates
        length == IF IsInt(token) THEN int(token) ELSE 1
    IN  IF token[1] = "-"
        THEN [target_coordinates |-> Append(t, Last(t) + 1),
              query_coordinates |-> Append(q, Last(q)), state |-> QUERY_GAP]
        ELSE IF token[Len(token)] = "-"
        THEN [target_coordinates |-> Append(t, Last(t)),
              query_coordinates |-> Append(q, Last(q) + 1), state |-> TARGET_GAP]
        ELSE [target_coordinates |-> Append(t, Last(t) + length),
              query_coordinates |-> Append(q, Last(q) + length), state |-> MATCH]

\* A variant of the loop body in which a gap in the query advances the query.
btop_step_swapped(acc, token) ==
    LET t == acc.target_coordinates
        q == acc.query_coordinates
        length == IF IsInt(token) THEN int(token) ELSE 1
    IN  IF token[1] = "-"
        THEN IF acc.state # QUERY_GAP
             THEN [target_coordinates |-> Append(t, Last(t)),
                   query_coordinates |-> Append(q, Last(q) + 1), state |-> QUERY_GAP]
             ELSE [acc EXCEPT !.query_coordinates = AddToLast(q, 1)]
        ELSE IF token[Len(token)] = "-"
        THEN IF acc.state # TARGET_GAP
             THEN [target_coordinates |-> Append(t, Last(t) + 1),
                   query_coordinates |-> Append(q, Last(q)), state |-> TARGET_GAP]
             ELSE [acc EXCEPT !.target_coordinates = AddToLast(t, 1)]
        ELSE IF acc.state = MATCH
        THEN [acc EXCEPT !.target_coordinates = AddToLast(t, length),
                         !.query_coordinates = AddToLast(q, length)]
        ELSE [target_coordinates |-> Append(t, Last(t) + length),
              query_coordinates |-> Append(q, Last(q) + length), state |-> MATCH]

\* One iteration of "for token in tokens" (lines 319-344).
btop_step(acc, token) ==
    LET t == acc.target_coordinates
        q == acc.query_coordinates
        \* try: length = int(token)  except ValueError: length = 1
        length == IF IsInt(token) THEN int(token) ELSE 1
    IN  IF token[1] = "-"
        THEN IF acc.state # QUERY_GAP
             THEN [target_coordinates |-> Append(t, Last(t) + 1),
                   query_coordinates |-> Append(q, Last(q)), state |-> QUERY_GAP]
             ELSE [acc EXCEPT !.target_coordinates = AddToLast(t, 1)]
        ELSE IF token[Len(token)] = "-"
        THEN IF acc.state # TARGET_GAP
             THEN [target_coordinates |-> Append(t, Last(t)),
                   query_coordinates |-> Append(q, Last(q) + 1), state |-> TARGET_GAP]
             ELSE [acc EXCEPT !.query_coordinates = AddToLast(q, 1)]
        ELSE IF acc.state = MATCH
        THEN [acc EXCEPT !.target_coordinates = AddToLast(t, length),
                         !.query_coordinates = AddToLast(q, length)]
        ELSE [target_coordinates |-> Append(t, Last(t) + length),
              query_coordinates |-> Append(q, Last(q) + length), state |-> MATCH]

RECURSIVE btop_loop(_, _)
btop_loop(acc, tokens) ==
    IF tokens = <<>> THEN acc
    ELSE btop_loop(btop_step(acc, Head(tokens)), Tail(tokens))

\* numpy.array([target_coordinates, query_coordinates])
Matrix(t, q) == [target |-> t, query |-> q]

parse_btop(btop) ==
    LET acc == btop_loop([target_coordinates |-> <<0>>,
                          query_coordinates |-> <<0>>, state |-> NONE],
                         btop_tokens(btop))
    IN  Matrix(acc.target_coordinates, acc.query_coordinates)

\* ----------------------------------------------------------- parse_cigar
\* Exceptions are returned as values: [error |-> <exception class>].
Raise(kind) == [status |-> "raised", error |-> kind]
Raised(x) == "error" \in DOMAIN x

\* A variant of the loop body with the roles of I and D exchanged.
cigar_step_swapped(acc, length, operation) ==
    LET n == int(length)
        t == IF operation = <<"M">> \/ operation = <<"D">>
             THEN acc.target_coordinate + n ELSE acc.target_coordinate
        q == IF operation = <<"M">> \/ operation = <<"I">>
             THEN acc.query_coordinate + n ELSE acc.query_coordinate
    IN  [target_coordinate |-> t, query_coordinate |-> q,
         target_coordinates |-> Append(acc.target_coordinates, t),
         query_coordinates |-> Append(acc.query_coordinates, q)]

\* One iteration of "for length, operation in zip(...)" (lines 366-376) for a
\* length token that int() accepts.
cigar_step(acc, length, operation) ==
    LET n == int(length)
        t == IF operation = <<"M">> \/ operation = <<"I">>
             THEN acc.target_coordinate + n ELSE acc.target_coordinate
        q == IF operation = <<"M">> \/ operation = <<"D">>
             THEN acc.query_coordinate + n ELSE acc.query_coordinate
    IN  [target_coordinate |-> t, query_coordinate |-> q,
         target_coordinates |-> Append(acc.target_coordinates, t),
         query_coordinates |-> Append(acc.query_coordinates, q)]

\* zip(tokens[::2], tokens[1::2]): a trailing unpaired token is dropped.
\* int(length) raises ValueError when the length token is an operation code.
RECURSIVE cigar_loop(_, _)
cigar_loop(acc, tokens) ==
    IF Len(tokens) < 2 THEN acc
    ELSE IF ~IsInt(tokens[1]) THEN Raise("ValueError")
    ELSE cigar_loop(cigar_step(acc, tokens[1], tokens[2]),
                    SubSeq(tokens, 3, Len(tokens)))

parse_cigar(cigar) ==
    LET acc == cigar_loop([target_coordinate |-> 0, query_coordinate |-> 0,
                           target_coordinates |-> <<0>>,
                           query_coordinates |-> <<0>>],
                          cigar_tokens(cigar))
    IN  IF Raised(acc) THEN acc
        ELSE Matrix(acc.target_coordinates, acc.query_coordinates)

\* ------------------------------------------------------- text of a row
\* line.split("\t"): always at least one (possibly empty) column.
RECURSIVE split(_)
split(s) ==
    IF \A i \in 1..Len(s) : s[i] # TAB THEN <<s>>
    ELSE LET i == CHOOSE j \in 1..Len(s) :
                      s[j] = TAB /\ \A k \in 1..(j - 1) : s[k] # TAB
         IN  <<SubSeq(s, 1, i - 1)>> \o split(SubSeq(s, i + 1, Len(s)))

\* text.replace("-", "")
IsResidue(c) == c # "-"
strip_gaps(s) == SelectSeq(s, IsResidue)

\* A word in either case, as float() reads "inf", "infinity" and "nan".
IsWord(t, lower, upper) ==
    Len(t) = Len(lower) /\ \A i \in 1..Len(t) : t[i] \in {lower[i], upper[i]}

\* Digits with at most one point among them.
IsMantissa(m) ==
    LET NotPoint(c) == c # "."
    IN  /\ Cardinality({i \in 1..Len(m) : m[i] = "."}) <= 1
        /\ AllDigits(SelectSeq(m, NotPoint))

\* float(text) succeeds on optional whitespace, an optional sign and either
\* inf, infinity, nan or a decimal numeral with an optional exponent, its
\* digits grouped or not, and raises ValueError otherwise.  The value is kept
\* as the text it was read from.
IsFloat(s) ==
    LET t == skip_space(s)
        u == Unsigned(Ungrouped(t))
        marks == {i \in 1..Len(u) : u[i] \in {"e", "E"}}
        e == CHOOSE i \in marks : \A j \in marks : i <= j
    IN  /\ Grouped(t)
        /\ \/ IsWord(u, <<"i", "n", "f">>, <<"I", "N", "F">>)
           \/ IsWord(u, <<"i", "n", "f", "i", "n", "i", "t", "y">>,
                        <<"I", "N", "F", "I", "N", "I", "T", "Y">>)
           \/ IsWord(u, <<"n", "a", "n">>, <<"N", "A", "N">>)
           \/ marks = {} /\ IsMantissa(u)
           \/ /\ marks # {}
              /\ IsMantissa(SubSeq(u, 1, e - 1))
              /\ AllDigits(Unsigned(SubSeq(u, e + 1, Len(u))))
float(s) == [float |-> s]

\* dict[key] = value
Put(dict, key, value) ==
    [k \in DOMAIN dict \cup {key} |-> IF k = key THEN value ELSE dict[k]]
EmptyDict == <<>>

\* hasattr(obj, name) and del obj.name on an object held as a record.
hasattr(obj, name) == name \in DOMAIN obj
delattr(obj, name) == [k \in DOMAIN obj \ {name} |-> obj[k]]

\* ------------------------------------------------------- field dispatch
\* Fields stored as int(column) in the alignment annotations.
IntAnnotationFields == {"mismatches", "gap opens", "positives", "gaps"}
\* Fields stored as float(column) in the alignment annotations.
FloatAnnotationFields ==
    {"% identity", "evalue", "bit score", "% positives", "% hsp coverage"}
\* Fields stored verbatim in the query annotations, with their keys.
QueryTextFields ==
    [f \in {"query gi", "query acc.", "query acc.ver", "query frame"} |->
        CASE f = "query gi" -> "gi" [] f = "query acc." -> "acc."
          [] f = "query acc.ver" -> "acc.ver" [] f = "query frame" -> "frame"]
\* Fields stored verbatim in the target annotations, with their keys.
TargetTextFields ==
    [f \in {"subject ids", "subject gi", "subject gis", "subject acc.",
            "subject accs.", "subject tax ids", "subject sci names",
            "subject com names", "subject blast names",
            "subject super kingdoms", "subject title", "subject titles",
            "subject strand", "subject acc.ver", "sbjct frame"} |->
        CASE f = "subject ids" -> "ids" [] f = "subject gi" -> "gi"
          [] f = "subject gis" -> "gis" [] f = "subject acc." -> "acc."
          [] f = "subject accs." -> "accs." [] f = "subject tax ids" -> "tax ids"
          [] f = "subject sci names" -> "sci names"
          [] f = "subject com names" -> "com names"
          [] f = "subject blast names" -> "blast names"
          [] f = "subject super kingdoms" -> "super kingdoms"
          [] f = "subject title" -> "title" [] f = "subject titles" -> "titles"
          [] f = "subject strand" -> "strand" [] f = "subject acc.ver" -> "acc.ver"
          [] f = "sbjct frame" -> "frame"]

\* The local variables of _read_next_alignment as set by lines 116-136.
Locals(query_size) ==
    [alignment_length |-> None, score |-> None, query_id |-> None,
     target_id |-> None, query_start |-> None, query_end |-> None,
     target_start |-> None, target_end |-> None, query_sequence |-> None,
     target_sequence |-> None, target_length |-> None, coordinates |-> None,
     query_size |-> query_size, annotations |-> EmptyDict,
     query_annotations |-> EmptyDict, target_annotations |-> EmptyDict,
     query_seq |-> None, target_seq |-> None, error |-> None]

Fail(loc, kind) == [loc EXCEPT !.error = Some(kind)]

\* One iteration of "for column, field in zip(columns, self._fields)"
\* (lines 137-235); nothing more is done once an exception was raised.
dispatch_field(loc, column, field, self) ==
    IF loc.error # None THEN loc
    ELSE IF field = "query id" THEN
        IF ~hasattr(self, "query_id")
        THEN Fail([loc EXCEPT !.query_id = Some(column)], "AttributeError")
        ELSE IF self.query_id # None /\ column # Get(self.query_id)
        THEN Fail([loc EXCEPT !.query_id = Some(column)], "AssertionError")
        ELSE [loc EXCEPT !.query_id = Some(column)]
    ELSE IF field = "subject id" THEN [loc EXCEPT !.target_id = Some(column)]
    ELSE IF field \in FloatAnnotationFields THEN
        IF ~IsFloat(column) THEN Fail(loc, "ValueError")
        ELSE [loc EXCEPT !.annotations = Put(@, field, float(column))]
    ELSE IF field = "alignment length" THEN
        IF ~IsInt(column) THEN Fail(loc, "ValueError")
        ELSE [loc EXCEPT !.alignment_length = Some(int(column))]
    ELSE IF field \in IntAnnotationFields \cup {"identical"} THEN
        IF ~IsInt(column) THEN Fail(loc, "ValueError")
        ELSE [loc EXCEPT !.annotations = Put(@, field, int(column))]
    ELSE IF field = "q. start" THEN
        IF ~IsInt(column) THEN Fail(loc, "ValueError")
        ELSE [loc EXCEPT !.query_start = Some(int(column) - 1)]
    ELSE IF field = "q. end" THEN
        IF ~IsInt(column) THEN Fail(loc, "ValueError")
        ELSE [loc EXCEPT !.query_end = Some(int(column))]
    ELSE IF field = "s. start" THEN
        IF ~IsInt(column) THEN Fail(loc, "ValueError")
        ELSE [loc EXCEPT !.target_start = Some(int(column) - 1)]
    ELSE IF field = "s. end" THEN
        IF ~IsInt(column) THEN Fail(loc, "ValueError")
        ELSE [loc EXCEPT !.target_end = Some(int(column))]
    ELSE IF field = "BTOP" THEN
        [loc EXCEPT !.coordinates = Some(parse_btop(column))]
    ELSE IF field = "aln_code" THEN
        IF Raised(parse_cigar(column)) THEN Fail(loc, parse_cigar(column).error)
        ELSE [loc EXCEPT !.coordinates = Some(parse_cigar(column))]
    ELSE IF field \in DOMAIN QueryTextFields THEN
        [loc EXCEPT !.query_annotations = Put(@, QueryTextFields[field], column)]
    ELSE IF field = "query length" THEN
        IF ~IsInt(column) THEN Fail(loc, "ValueError")
        ELSE IF loc.query_size = None
        THEN [loc EXCEPT !.query_size = Some(int(column))]
        ELSE IF Get(loc.query_size) # int(column) THEN Fail(loc, "AssertionError")
        ELSE loc
    ELSE IF field \in DOMAIN TargetTextFields THEN
        [loc EXCEPT !.target_annotations = Put(@, TargetTextFields[field], column)]
    ELSE IF field = "% subject coverage" THEN
        IF ~IsFloat(column) THEN Fail(loc, "ValueError")
        ELSE [loc EXCEPT !.target_annotations = Put(@, "% coverage", float(column))]
    ELSE IF field = "subject length" THEN
        IF ~IsInt(column) THEN Fail(loc, "ValueError")
        ELSE [loc EXCEPT !.target_length = Some(int(column))]
    ELSE IF field = "query seq" THEN [loc EXCEPT !.query_sequence = Some(column)]
    ELSE IF field = "subject seq" THEN [loc EXCEPT !.target_sequence = Some(column)]
    ELSE IF field = "score" THEN
        IF ~IsInt(column) THEN Fail(loc, "ValueError")
        ELSE [loc EXCEPT !.score = Some(int(column))]
    ELSE IF field = "query/sbjct frames" THEN
        [loc EXCEPT !.annotations = Put(@, field, column)]
    ELSE Fail(loc, "ValueError")

RECURSIVE dispatch_loop(_, _, _, _)
dispatch_loop(loc, columns, fields, self) ==
    IF columns = <<>> \/ fields = <<>> THEN loc
    ELSE dispatch_loop(dispatch_field(loc, Head(columns), Head(fields), self),
                       Tail(columns), Tail(fields), self)

\* ------------------------------------------------ Bio.Seq, Bio.Align
\* Seq(None, length=n): only the total length is known.
SeqUndefined(length) == [form |-> "undefined", length |-> length]
\* Seq(text): the residues are known, the length is that of the text.
SeqDefined(data) == [form |-> "defined", data |-> data]
\* Seq({start: text}, length=n): text known from offset start, total length n
\* (None or a 1-tuple).
SeqPartial(start, data, length) ==
    [form |-> "partial", start |-> start, data |-> data, length |-> length]

\* SeqRecord(seq, id=id) with its annotations and, for the query, the
\* description of the header.
SeqRecord(seq, id, description, annotations) ==
    [seq |-> seq, id |-> id, description |-> description,
     annotations |-> annotations]

\* Alignment(records, coordinates) with its annotations and score.
Alignment(target, query, coordinates, annotations, score) ==
    [status |-> "alignment", target |-> target, query |-> query,
     coordinates |-> coordinates, annotations |-> annotations, score |-> score]

\* ------------------------------------------------- coordinate rebasing
AddToAll(row, n) == [i \in 1..Len(row) |-> row[i] + n]

\* A variant that adds the query start on either strand.
rebase_query_forward_only(coordinates, query_start, query_end) ==
    Matrix(coordinates.target, AddToAll(coordinates.query, query_start))

\* Lines 245-249: the query row on the forward and on the reverse strand.
rebase_query(coordinates, query_start, query_end) ==
    IF query_start < query_end
    THEN Matrix(coordinates.target, AddToAll(coordinates.query, query_start))
    ELSE Matrix(coordinates.target,
                [i \in 1..Len(coordinates.query) |->
                    query_start - coordinates.query[i] + 1])

\* A variant that adds the target start to the query row.
rebase_target_query_row(coordinates, target_start) ==
    Matrix(coordinates.target, AddToAll(coordinates.query, target_start))

\* Line 283: coordinates[0, :] += target_start
rebase_target(coordinates, target_start) ==
    Matrix(AddToAll(coordinates.target, target_start), coordinates.query)

\* A variant that takes only TBLASTN for a translated search.
translated_only_tblastn(program) == program = "TBLASTN"

\* Line 272: self.metadata["Program"] in ("TBLASTN", "TBLASTX")
translated(program) == program \in {"TBLASTN", "TBLASTX"}

\* A variant of the assertions that accepts every length.
length_unchecked(sequence, start, end) == TRUE

\* Lines 259 and 292: assert len(sequence) == end - start
length_matches(sequence, start, end) == Len(sequence) = end - start

\* ---------------------------------------------- after the field loop
\* Lines 236-249.
resolve_coordinates(loc) ==
    IF loc.coordinates = None THEN
        LET a == IF loc.alignment_length # None
                 THEN Put(loc.annotations, "alignment length", Get(loc.alignment_length))
                 ELSE loc.annotations
            q1 == IF loc.query_start # None
                  THEN Put(loc.query_annotations, "start", loc.query_start)
                  ELSE loc.query_annotations
            q2 == IF loc.query_end # None
                  THEN Put(q1, "end", loc.query_end) ELSE q1
        IN  [loc EXCEPT !.annotations = a, !.query_annotations = q2]
    ELSE IF loc.query_start = None \/ loc.query_end = None
    THEN Fail(loc, "TypeError")
    ELSE [loc EXCEPT !.coordinates =
              Some(rebase_query(Get(loc.coordinates), Get(loc.query_start),
                                Get(loc.query_end)))]

\* Lines 250-266; query_seq is None or a 1-tuple holding the Seq.
resolve_query(loc, program) ==
    IF loc.error # None THEN loc
    ELSE IF loc.query_sequence = None THEN
        IF loc.query_size = None THEN [loc EXCEPT !.query_seq = None]
        ELSE [loc EXCEPT !.query_seq = Some(SeqUndefined(Get(loc.query_size)))]
    ELSE LET query_sequence == strip_gaps(Get(loc.query_sequence))
         IN  IF program = "TBLASTN" THEN
                 IF loc.query_start = None \/ loc.query_end = None
                 THEN Fail(loc, "TypeError")
                 ELSE IF ~length_matches(query_sequence, Get(loc.query_start),
                                         Get(loc.query_end))
                 THEN Fail(loc, "AssertionError")
                 ELSE [loc EXCEPT !.query_seq =
                           Some(SeqPartial(Get(loc.query_start), query_sequence,
                                           loc.query_size))]
             ELSE IF program = "TBLASTX" THEN
                 [loc EXCEPT
                    !.query_annotations =
                        Put(Put(@, "start", loc.query_start), "end", loc.query_end),
                    !.query_seq = Some(SeqDefined(query_sequence))]
             ELSE Fail(loc, "Exception")

\* Lines 272-293; target_seq is None or a 1-tuple holding the Seq.
resolve_target(loc, program) ==
    IF loc.error # None THEN loc
    ELSE IF translated(program) THEN
        [loc EXCEPT
           !.target_annotations =
               Put(Put(Put(@, "start", loc.target_start), "end", loc.target_end),
                   "length", loc.target_length),
           !.target_seq =
               IF loc.target_sequence = None THEN None
               ELSE Some(SeqDefined(strip_gaps(Get(loc.target_sequence))))]
    ELSE IF loc.coordinates # None /\ loc.target_start = None
    THEN Fail(loc, "TypeError")
    ELSE LET rebased ==
                 IF loc.coordinates = None THEN loc
                 ELSE [loc EXCEPT !.coordinates =
                           Some(rebase_target(Get(loc.coordinates),
                                              Get(loc.target_start)))]
         IN  IF loc.target_sequence = None THEN
                 IF loc.target_end = None THEN [rebased EXCEPT !.target_seq = None]
                 ELSE [rebased EXCEPT
                         !.target_seq = Some(SeqUndefined(Get(loc.target_end)))]
             ELSE LET target_sequence == strip_gaps(Get(loc.target_sequence))
                  IN  IF loc.target_start # None /\ loc.target_end # None THEN
                          IF ~length_matches(target_sequence, Get(loc.target_start),
                                             Get(loc.target_end))
                          THEN Fail(rebased, "AssertionError")
                          ELSE [rebased EXCEPT !.target_seq =
                                    Some(SeqPartial(Get(loc.target_start),
                                                    target_sequence,
                                                    loc.target_end))]
                      \* target_seq is never bound: line 294 cannot read it.
                      ELSE Fail(rebased, "UnboundLocalError")

\* Line 268 reads self._query_description.
describe_query(loc, self) ==
    IF loc.error # None THEN loc
    ELSE IF ~hasattr(self, "query_description") THEN Fail(loc, "AttributeError")
    ELSE loc

\* Lines 267-271 and 294-302.
emit(loc, self) ==
    IF loc.error # None THEN Raise(Get(loc.error))
    ELSE Alignment(SeqRecord(loc.target_seq, loc.target_id, None,
                             loc.target_annotations),
                   SeqRecord(loc.query_seq, loc.query_id, self.query_description,
                             loc.query_annotations),
                   loc.coordinates, loc.annotations, loc.score)

\* Line 133: assert len(columns) == len(self._fields)
columns_match(columns, fields) == Len(columns) = Len(fields)

\* Lines 104 and 116-302 of _read_next_alignment for a line that is a row.
\* Lines 131 and 133 read self._query_size and self._fields.
read_row(self, text) ==
    LET columns == split(rstrip(text))
    IN  IF ~hasattr(self, "query_size") \/ ~hasattr(self, "fields")
        THEN Raise("AttributeError")
        ELSE IF ~columns_match(columns, self.fields) THEN Raise("AssertionError")
        ELSE LET loc == dispatch_loop(Locals(self.query_size), columns,
                                      self.fields, self)
             IN  IF loc.error # None THEN Raise(Get(loc.error))
                 ELSE emit(resolve_target(
                               describe_query(
                                   resolve_query(resolve_coordinates(loc),
                                                 self.metadata.Program),
                                   self),
                               self.metadata.Program),
                           self)

\* ------------------------------------------------------- header blocks
startswith(s, prefix) ==
    Len(s) >= Len(prefix) /\ SubSeq(s, 1, Len(prefix)) = prefix
endswith(s, suffix) ==
    Len(s) >= Len(suffix) /\ SubSeq(s, Len(s) - Len(suffix) + 1, Len(s)) = suffix

\* "# BLAST processed " and "# FASTA processed " (lines 63 and 69).
BlastPrefix ==
    <<"#", " ", "B", "L", "A", "S", "T", " ",
      "p", "r", "o", "c", "e", "s", "s", "e", "d", " ">>
FastaPrefix ==
    <<"#", " ", "F", "A", "S", "T", "A", " ",
      "p", "r", "o", "c", "e", "s", "s", "e", "d", " ">>
\* " queries" (line 106).
QueriesSuffix == <<" ", "q", "u", "e", "r", "i", "e", "s">>

\* Lines 59-100 on a header block.  The block is given by the program its
\* first lines name and by its "# Query: " and "# Fields: " lines, each None
\* when the block has no such line (a block that ends in "# 0 hits found" has
\* no Fields line).  An attribute is assigned only when its line is read, so
\* the others keep the value an earlier block gave them, if any; the metadata
\* are replaced.  Only a FASTA Query line carries the query size.
_parse_header(self, block) ==
    LET blast == block.program \in {"TBLASTN", "TBLASTX"}
        prefixed == Put(self, "final_prefix",
                        IF blast THEN BlastPrefix ELSE FastaPrefix)
        queried ==
            IF block.query = None THEN prefixed
            ELSE Put(Put(Put(prefixed, "query_size",
                             IF block.program = "FASTA"
                             THEN Some(int(Get(Get(block.query).size)))
                             ELSE None),
                         "query_id", Some(Get(block.query).id)),
                     "query_description", Get(block.query).description)
        fielded ==
            IF block.fields = None THEN queried
            ELSE Put(queried, "fields", Get(block.fields))
    IN  Put(fielded, "metadata", [Program |-> block.program])

\* Lines 107-111: the attributes are deleted in this order, up to the first
\* one that is missing.
FinalAttributes ==
    <<"fields", "query_id", "query_description", "query_size", "final_prefix">>

RECURSIVE delete_attributes(_, _)
delete_attributes(self, names) ==
    IF names = <<>> \/ ~hasattr(self, Head(names)) THEN self
    ELSE delete_attributes(delattr(self, Head(names)), Tail(names))

\* ------------------------------------------------- direct decoder calls
\* Strings of length 0..n over an alphabet.
RECURSIVE Strings(_, _)
Strings(alphabet, n) ==
    IF n = 0 THEN {<<>>}
    ELSE LET shorter == Strings(alphabet, n - 1)
         IN  shorter \cup {Append(s, c) : s \in {x \in shorter : Len(x) = n - 1},
                                          c \in alphabet}

\* Digits, one of them ARABIC-INDIC DIGIT FIVE, a mismatch letter, the gap
\* and stop characters, and a lower-case letter that the regular expression
\* skips.
BtopAlphabet == {"0", "3", "U+0665", "A", "-", "*", "x"}

\* Digits, one of them FULLWIDTH DIGIT FOUR, the three operations, and an
\* operation code outside {M, I, D}.
CigarAlphabet == {"2", "3", "U+FF14", "M", "I", "D", "X"}

\* Strings outside the exhaustive enumeration.
BtopScenarios == {<<"5", "A", "A", "3">>,
                  <<"5", "A", "A", "3", "-", "A", "-", "C", "7">>,
                  <<"1", "0">>, <<"3", "-", "A", "-", "C", "T", "-", "2", "T", "G">>}
CigarScenarios == {<<"4", "M", "2", "I", "3", "M">>,
                   <<"1", "0", "M", "2", "D", "2", "D", "3", "I">>,
                   <<"4", "X", "3", "M", "2", "I">>}

BtopInputs == Strings(BtopAlphabet, MaxBtopLen) \cup BtopScenarios
CigarInputs == Strings(CigarAlphabet, MaxCigarLen) \cup CigarScenarios

\* --------------------------------------------------- enumerated input
Q == <<"q">>
R == <<"r">>

\* The values a row may carry under each field name.
\* A numeral of one digit more than int() converts: zeros, then 2.
LongNumeral ==
    [i \in 1..(int_max_str_digits + 1) |->
        IF i <= int_max_str_digits THEN "0" ELSE "2"]

FieldValues(field) ==
    CASE field = "query id" -> {Q, R}
      [] field = "subject id" -> {<<"s">>}
      [] field = "q. start" -> {<<"1">>, <<"4">>, <<"6">>}
      [] field = "q. end" -> {<<"3">>, <<"4">>}
      [] field = "s. start" -> {<<"1">>, <<"4">>}
      [] field = "s. end" -> {<<"3">>, <<"4">>}
      [] field = "BTOP" -> {<<"3">>, <<"2", "-", "A", "A", "-", "1">>,
                            <<"1", "A", "A", "1">>}
      [] field = "aln_code" -> {<<"3", "M">>, <<"2", "M", "1", "I", "1", "D">>,
                                <<"M", "2">>}
      [] field = "query seq" -> {<<"A", "C", "-", "G">>, <<"A", "C", "-", "G", "T">>}
      [] field = "subject seq" -> {<<"A", "C", "-", "G">>, <<"A", "C", "-", "G", "T">>}
      [] field = "subject length" -> {<<"9">>}
      [] field = "query length" -> {<<"8">>, <<"9">>}
      [] field = "alignment length" -> {<<"7">>, <<"x">>}
      [] field = "% identity" -> {<<"9", "7", ".", "5">>}
      [] field = "mismatches" -> {<<"1">>}
      [] field = "score" -> {<<"5">>, <<" ", "3">>, <<"1", "_", "0">>,
                             <<"U+0663">>, <<"-", "2", NBSP>>,
                             <<"1", "_", "_", "0">>, <<FS, "3">>, LongNumeral}
      [] field = "evalue" -> {<<"1", "e", "-", "5">>, <<".", "5">>,
                              <<"2", ".", "5", "E", "+", "1", "0">>,
                              <<"U+0663", ".">>, <<"-", "I", "n", "f">>,
                              <<"1", "e">>, <<".">>, <<"0", "x", "1">>}
      [] OTHER -> {<<"z">>}

\* The "# Fields: " lists of the enumerated header blocks.
Vocabularies ==
    {<<"q. start", "q. end", "s. start", "s. end", "BTOP">>,
     <<"q. start", "q. end", "s. start", "s. end", "aln_code">>,
     <<"q. start", "q. end", "s. start", "s. end", "query seq", "subject seq",
       "subject length">>,
     <<"s. start", "s. end", "subject seq">>,
     <<"s. start", "s. end", "subject seq", "subject length">>,
     <<"query id", "subject id", "% identity", "alignment length", "mismatches",
       "query length">>,
     <<"query id", "bogus">>,
     <<"subject id", "BTOP">>,
     <<"subject id", "subject seq">>,
     <<"subject id", "score">>,
     <<"subject id", "evalue">>,
     <<"subject id">>}

\* Every choice of one value per field.
RECURSIVE Rows(_)
Rows(fields) ==
    IF fields = <<>> THEN {<<>>}
    ELSE {<<v>> \o r : v \in FieldValues(Head(fields)), r \in Rows(Tail(fields))}

\* A row with one value too many, with a trailing empty value, or with its
\* last value missing.
Miscounted(row) ==
    {Append(row, <<"z">>), Append(row, <<>>), SubSeq(row, 1, Len(row) - 1)}

\* The miscounted rows enumerated under a field list: those of every row
\* under the lists of at most four fields.
Miscounts(fields) ==
    IF Len(fields) > 4 THEN {}
    ELSE UNION {Miscounted(row) : row \in Rows(fields)}

RECURSIVE Join(_)
Join(values) ==
    IF values = <<>> THEN <<>>
    ELSE IF Len(values) = 1 THEN values[1]
    ELSE values[1] \o <<TAB>> \o Join(Tail(values))

\* What stands between the last value and the end of a line: the line
\* terminator alone or, under the short field lists, whitespace before it.
Endings(fields) ==
    IF Len(fields) > 2 THEN {<<NL>>}
    ELSE {<<NL>>, <<"\r", NL>>, <<VT, NL>>, <<"\f", NL>>, <<US, NL>>,
          <<NEL, NL>>, <<"U+2028", NL>>}

\* The text lines a stream may hold under a field list.
LinesFor(fields) ==
    {Join(row) \o ending : row \in Rows(fields), ending \in Endings(fields)}
        \cup {Join(row) \o <<NL>> : row \in Miscounts(fields)}

\* The rows offered to an iterator: those of its field list, or some rows
\* when it has none.
Lines(obj) ==
    IF hasattr(obj, "fields") THEN LinesFor(obj.fields)
    ELSE LinesFor(<<"subject id", "score">>)

\* The Query line of the enumerated blocks, one per program: the identifier
\* and description of the query and, under FASTA, its size.
QueryLine(program) ==
    [id |-> Q,
     description |-> IF program = "TBLASTX" THEN None ELSE Some(<<"d">>),
     size |-> IF program = "FASTA" THEN Some(<<"9">>) ELSE None]

\* The enumerated header blocks: with both lines, without a Fields line,
\* without a Query line, and with neither.
Blocks ==
    {[program |-> program, query |-> Some(QueryLine(program)),
      fields |-> fields] :
        program \in {"TBLASTN", "TBLASTX", "FASTA"},
        fields \in {None} \cup {Some(v) : v \in Vocabularies}}
    \cup
    {[program |-> program, query |-> None, fields |-> fields] :
        program \in {"TBLASTN", "TBLASTX", "FASTA"},
        fields \in {None, Some(<<"subject id", "BTOP">>)}}

\* The first line of a header block and the final line of a stream, as
\* _read_next_alignment holds them in line.
HeaderLine(block) ==
    CASE block.program = "TBLASTN" ->
             <<"#", " ", "T", "B", "L", "A", "S", "T", "N", " ", "2">>
      [] block.program = "TBLASTX" ->
             <<"#", " ", "T", "B", "L", "A", "S", "T", "X", " ", "2">>
      [] OTHER -> <<"#", " ", "f", "a", "s", "t", "a", "3", "6">>
FinalLines ==
    {prefix \o <<"1">> \o QueriesSuffix \o <<NL>> :
        prefix \in {BlastPrefix, FastaPrefix}}

\* ------------------------------------------------------------- the state
\* self:   the attributes of the AlignmentIterator
\* line:   the text line _read_next_alignment read last, <<>> when the call
\*         has read none
\* result: what the call of _read_next_alignment has returned or raised;
\*         Pending before the first call, InHeader while a call has read
\*         header blocks only
\* stream: "more" while the stream has lines left, then "exhausted"
\* call, ret: a direct call of parse_btop or parse_cigar and its result
VARIABLES self, line, result, stream, call, ret

vars == <<self, line, result, stream, call, ret>>

Pending == [status |-> "pending"]
InHeader == [status |-> "header"]
Returned(value) == [status |-> "returned", value |-> value]

\* A caller invokes parse_btop(call.arg) on the iterator.
CallParseBtop ==
    /\ call.fn = "parse_btop"
    /\ ret = Pending
    /\ ret' = Returned(parse_btop(call.arg))
    /\ UNCHANGED <<self, line, result, stream, call>>

\* A caller invokes parse_cigar(call.arg) on the iterator.
CallParseCigar ==
    /\ call.fn = "parse_cigar"
    /\ ret = Pending
    /\ ret' = Returned(parse_cigar(call.arg))
    /\ UNCHANGED <<self, line, result, stream, call>>

\* _read_next_alignment reads a header block (lines 103-113): _parse_header
\* assigns the attributes and the loop goes on to the next line.
ParseHeader ==
    /\ call.fn = "next"
    /\ result.status # "stop"
    /\ stream = "more"
    /\ \E block \in Blocks :
         /\ self' = _parse_header(self, block)
         /\ line' = HeaderLine(block)
    /\ result' = InHeader
    /\ UNCHANGED <<stream, call, ret>>

\* _read_next_alignment reads a row (lines 103-104, 114-302) and returns an
\* Alignment or raises.
ReadRow ==
    /\ call.fn = "next"
    /\ result.status # "stop"
    /\ stream = "more"
    /\ \E text \in Lines(self) :
         /\ line' = text
         /\ result' = read_row(self, text)
    /\ UNCHANGED <<self, stream, call, ret>>

\* _read_next_alignment reads the final "# ... processed n queries" line of
\* its program (lines 104-112): the attributes are deleted and None is
\* returned, or a missing attribute raises AttributeError.
ReadFinalLine ==
    /\ call.fn = "next"
    /\ result.status # "stop"
    /\ stream = "more"
    /\ \E text \in FinalLines :
         /\ hasattr(self, "final_prefix")
         /\ startswith(rstrip(text), self.final_prefix)
         /\ endswith(rstrip(text), QueriesSuffix)
         /\ line' = text
    /\ self' = delete_attributes(self, FinalAttributes)
    /\ result' = IF \A i \in 1..Len(FinalAttributes) :
                       hasattr(self, FinalAttributes[i])
                 THEN [status |-> "stop"]
                 ELSE Raise("AttributeError")
    /\ UNCHANGED <<stream, call, ret>>

\* The loop of line 103 finds the stream exhausted.  In a call that has read
\* header blocks only, line still holds the first line of the last block and
\* lines 116-302 run on it.  In a call that has read no line, line is
\* unbound: line 131 reads self._query_size and line 132 raises
\* UnboundLocalError.
ReadEnd ==
    /\ call.fn = "next"
    /\ result.status # "stop"
    /\ stream' = "exhausted"
    /\ IF stream = "more" /\ result = InHeader
       THEN /\ line' = line
            /\ result' = read_row(self, line)
       ELSE /\ line' = <<>>
            /\ result' = IF ~hasattr(self, "query_size")
                         THEN Raise("AttributeError")
                         ELSE Raise("UnboundLocalError")
    /\ UNCHANGED <<self, call, ret>>

\* The stream ends with the command line of a FASTA header block: next(stream)
\* of line 66 raises StopIteration before any attribute is assigned.
ParseHeaderEnd ==
    /\ call.fn = "next"
    /\ result.status # "stop"
    /\ stream = "more"
    /\ \E block \in Blocks :
         /\ block.program = "FASTA"
         /\ line' = HeaderLine(block)
    /\ result' = Raise("StopIteration")
    /\ stream' = "exhausted"
    /\ UNCHANGED <<self, call, ret>>

\* After construction _read_header has parsed the first header block into an
\* iterator that had none of the attributes.
Init ==
    /\ call \in [fn : {"parse_btop"}, arg : BtopInputs]
                \cup [fn : {"parse_cigar"}, arg : CigarInputs]
                \cup [fn : {"next"}, arg : {<<>>}]
    /\ ret = Pending
    /\ \E block \in Blocks :
         /\ call.fn # "next" => block = CHOOSE b \in Blocks : TRUE
         /\ self = _parse_header(<<>>, block)
         /\ line = HeaderLine(block)
    /\ result = Pending
    /\ stream = "more"

Next ==
    \/ CallParseBtop
    \/ CallParseCigar
    \/ ParseHeader
    \/ ReadRow
    \/ ReadFinalLine
    \/ ReadEnd
    \/ ParseHeaderEnd

Spec == Init /\ [][Next]_vars

\* ================================================================ claims
BtopReturned == call.fn = "parse_btop" /\ ret.status = "returned"
CigarReturned == call.fn = "parse_cigar" /\ ret.status = "returned"

\* The kind of alignment operation a BTOP token stands for: integers and
\* mismatch pairs are both Match.
Kind(token) ==
    IF token[1] = "-" THEN "GapInQuery"
    ELSE IF token[Len(token)] = "-" THEN "GapInTarget"
    ELSE "Match"

TokenLength(token) == IF AllDigits(token) THEN DecimalValue(token) ELSE 1

TargetAdvance(token) ==
    CASE Kind(token) = "Match" -> TokenLength(token)
      [] Kind(token) = "GapInQuery" -> 1
      [] Kind(token) = "GapInTarget" -> 0

QueryAdvance(token) ==
    CASE Kind(token) = "Match" -> TokenLength(token)
      [] Kind(token) = "GapInQuery" -> 0
      [] Kind(token) = "GapInTarget" -> 1

\* Totals over the first i tokens.
RECURSIVE TargetTotal(_, _)
TargetTotal(tokens, i) ==
    IF i = 0 THEN 0 ELSE TargetTotal(tokens, i - 1) + TargetAdvance(tokens[i])

RECURSIVE QueryTotal(_, _)
QueryTotal(tokens, i) ==
    IF i = 0 THEN 0 ELSE QueryTotal(tokens, i - 1) + QueryAdvance(tokens[i])

\* Positions at which a maximal run of same-kind tokens ends.
RunEnds(tokens) ==
    {i \in 1..Len(tokens) : i = Len(tokens) \/ Kind(tokens[i + 1]) # Kind(tokens[i])}

\* C1: parse_btop returns the origin column followed by one column per
\* maximal run of same-kind tokens (integers and mismatch pairs both Match),
\* each holding the cumulative target and query totals at the end of its run.
C1_BtopRunColumns ==
    BtopReturned =>
        LET tokens == btop_tokens(call.arg)
            ends == RunEnds(tokens)
            m == ret.value
        IN  /\ Len(m.target) = 1 + Cardinality(ends)
            /\ Len(m.query) = 1 + Cardinality(ends)
            /\ m.target[1] = 0 /\ m.query[1] = 0
            /\ \A i \in ends :
                 LET k == 1 + Cardinality({j \in ends : j <= i})
                 IN  /\ m.target[k] = TargetTotal(tokens, i)
                     /\ m.query[k] = QueryTotal(tokens, i)

\* A BTOP string with a gap-in-query run of two, a gap-in-target run of one
\* and a match run made of an integer and a mismatch pair has been decoded.
C1_Witness ==
    /\ BtopReturned
    /\ call.arg = <<"3", "-", "A", "-", "C", "T", "-", "2", "T", "G">>
    /\ ret.value = Matrix(<<0, 3, 5, 5, 8>>, <<0, 3, 3, 4, 7>>)

\* The kinds under which an integer and a mismatch pair differ.
Kind4(token) ==
    IF Kind(token) = "Match" /\ ~AllDigits(token) THEN "Mismatch" ELSE Kind(token)

\* C2 as stated: a mismatch pair never merges with an adjacent integer match
\* run, so the matrix has one column per maximal run of tokens of the same
\* one of four kinds, and "5AA3" decodes to [[0,5,6,9],[0,5,6,9]].
C2_Original ==
    BtopReturned =>
        LET tokens == btop_tokens(call.arg)
            ends4 == {i \in 1..Len(tokens) :
                        i = Len(tokens) \/ Kind4(tokens[i + 1]) # Kind4(tokens[i])}
        IN  /\ Len(ret.value.target) = 1 + Cardinality(ends4)
            /\ call.arg = <<"5", "A", "A", "3">> =>
                 ret.value = Matrix(<<0, 5, 6, 9>>, <<0, 5, 6, 9>>)

\* C2 amended: mismatch pairs merge with adjacent integer match runs: a BTOP
\* string whose tokens are all integers or mismatch pairs decodes to the two
\* columns (0,0) and (S,S), S the sum of the integers plus the number of
\* mismatch pairs; "5AA3" decodes to [[0,9],[0,9]].
C2_MismatchMerges ==
    BtopReturned =>
        LET tokens == btop_tokens(call.arg)
            S == TargetTotal(tokens, Len(tokens))
        IN  /\ (tokens # <<>> /\ \A i \in 1..Len(tokens) : Kind(tokens[i]) = "Match")
                 => ret.value = Matrix(<<0, S>>, <<0, S>>)
            /\ call.arg = <<"5", "A", "A", "3">>
                 => ret.value = Matrix(<<0, 9>>, <<0, 9>>)

C2_Witness ==
    /\ BtopReturned
    /\ call.arg = <<"5", "A", "A", "3">>
    /\ Len(ret.value.target) = 2

\* A CIGAR string of the grammar (\d+[MID])*: every character belongs to a
\* token and the tokens alternate length, operation.
ValidCigar(cigar) ==
    LET tokens == cigar_tokens(cigar)
    IN  /\ \A i \in 1..Len(cigar) : cigar[i] \in Digits \cup CigarOps
        /\ Len(tokens) % 2 = 0
        /\ \A i \in 1..Len(tokens) :
             IF i % 2 = 1 THEN AllDigits(tokens[i]) ELSE ~AllDigits(tokens[i])

\* Sum of the lengths of the pairs among the first k whose operation is in ops.
RECURSIVE PairTotal(_, _, _)
PairTotal(tokens, k, ops) ==
    IF k = 0 THEN 0
    ELSE PairTotal(tokens, k - 1, ops)
           + (IF tokens[2 * k] \in ops THEN DecimalValue(tokens[2 * k - 1]) ELSE 0)

\* C3: for a CIGAR string of n pairs parse_cigar returns n + 1 columns, the
\* origin and, for each k, (sum of the M and I lengths, sum of the M and D
\* lengths) over the first k pairs; "4M2I3M" gives (0,0),(4,4),(6,4),(9,7).
C3_CigarColumns ==
    (CigarReturned /\ ValidCigar(call.arg)) =>
        LET tokens == cigar_tokens(call.arg)
            n == Len(tokens) \div 2
            m == ret.value
        IN  /\ ~Raised(m)
            /\ Len(m.target) = n + 1 /\ Len(m.query) = n + 1
            /\ \A k \in 0..n :
                 /\ m.target[k + 1] = PairTotal(tokens, k, {<<"M">>, <<"I">>})
                 /\ m.query[k + 1] = PairTotal(tokens, k, {<<"M">>, <<"D">>})
            /\ call.arg = <<"4", "M", "2", "I", "3", "M">>
                 => m = Matrix(<<0, 4, 6, 9>>, <<0, 4, 4, 7>>)

\* A CIGAR string with two consecutive D pairs has been decoded without
\* merging them.
C3_Witness ==
    /\ CigarReturned
    /\ call.arg = <<"1", "0", "M", "2", "D", "2", "D", "3", "I">>
    /\ ret.value = Matrix(<<0, 10, 10, 10, 13>>, <<0, 10, 12, 14, 14>>)

\* C4: a CIGAR string that contains an operation code outside {M, I, D} is
\* rejected by parse_cigar: it raises and returns no coordinate matrix.
C4_MalformedCigarRejected ==
    (CigarReturned /\ \E i \in 1..Len(call.arg) : call.arg[i] \notin Digits \cup CigarOps)
        => Raised(ret.value)

\* ------------------------------------------------ the row that was read
\* _read_next_alignment has read a row under a field list and returned or
\* raised.
RowRead ==
    /\ call.fn = "next"
    /\ stream = "more"
    /\ result.status \in {"alignment", "raised"}
    /\ ~startswith(rstrip(line), <<"#", " ">>)
    /\ hasattr(self, "fields")
RowEmitted == call.fn = "next" /\ stream = "more" /\ result.status = "alignment"
MatrixEmitted == RowEmitted /\ result.coordinates # None

\* The tab-separated values of the line, without its line terminator.
RawValues == split(SubSeq(line, 1, Len(line) - 1))

Has(field) == \E i \in 1..Len(self.fields) : self.fields[i] = field
Value(field) ==
    RawValues[CHOOSE i \in 1..Len(self.fields) : self.fields[i] = field]

\* The offsets of the row: starts 0-based, ends as written.
QueryStart == int(Value("q. start")) - 1
QueryEnd == int(Value("q. end"))
TargetStart == int(Value("s. start")) - 1
TargetEnd == int(Value("s. end"))

\* The matrix the trace-back field of the row decodes to.
RawMatrix ==
    IF Has("BTOP") THEN parse_btop(Value("BTOP")) ELSE parse_cigar(Value("aln_code"))

Ungapped(text) == Cardinality({i \in 1..Len(text) : text[i] # "-"})

\* Sequence text given with start and end whose ungapped length is not
\* end - start.
QueryLengthMismatch ==
    /\ Len(RawValues) = Len(self.fields)
    /\ Has("query seq") /\ Has("q. start") /\ Has("q. end")
    /\ Ungapped(Value("query seq")) # QueryEnd - QueryStart
TargetLengthMismatch ==
    /\ Len(RawValues) = Len(self.fields)
    /\ Has("subject seq") /\ Has("s. start") /\ Has("s. end")
    /\ Ungapped(Value("subject seq")) # TargetEnd - TargetStart

\* C5 as stated: under every program a length mismatch of the query or of the
\* target sequence text makes the row fail.
C5_Original ==
    (RowRead /\ (QueryLengthMismatch \/ TargetLengthMismatch)) => Raised(result)

\* C5 amended: the length is checked for the query only under TBLASTN and for
\* the target only under a program other than TBLASTN and TBLASTX; there a
\* mismatch makes the row fail and no alignment is returned.
C5_LengthChecked ==
    (RowRead /\ \/ QueryLengthMismatch /\ self.metadata.Program = "TBLASTN"
                \/ TargetLengthMismatch
                     /\ self.metadata.Program \notin {"TBLASTN", "TBLASTX"})
        => Raised(result)

\* Subject text "AC-G" with s. start 1 and s. end 4 (ungapped length 3, not 4)
\* was read under FASTA and the assertion failed.
C5_Witness ==
    /\ RowRead
    /\ self.metadata.Program = "FASTA"
    /\ self.fields = <<"s. start", "s. end", "subject seq">>
    /\ RawValues = <<<<"1">>, <<"4">>, <<"A", "C", "-", "G">>>>
    /\ result = Raise("AssertionError")

\* C6: a row whose number of tab-separated values differs from the number of
\* field names fails and no alignment is returned.
C6_MiscountedRowFails ==
    (RowRead /\ Len(RawValues) # Len(self.fields)) => Raised(result)

NonDecreasing(row) == \A i \in 1..(Len(row) - 1) : row[i] <= row[i + 1]
NonIncreasing(row) == \A i \in 1..(Len(row) - 1) : row[i] >= row[i + 1]

\* C7 as stated: both rows of every matrix are non-decreasing, also after
\* normalization of a reverse-strand row.
C7_Original ==
    /\ BtopReturned =>
          NonDecreasing(ret.value.target) /\ NonDecreasing(ret.value.query)
    /\ (CigarReturned /\ ~Raised(ret.value)) =>
          NonDecreasing(ret.value.target) /\ NonDecreasing(ret.value.query)
    /\ MatrixEmitted =>
          /\ NonDecreasing(Get(result.coordinates).target)
          /\ NonDecreasing(Get(result.coordinates).query)

\* C7 amended: both rows of the matrix parse_btop or parse_cigar returns are
\* non-decreasing; in an emitted alignment the target row is non-decreasing
\* and the query row is non-decreasing when the 0-based query start is less
\* than the query end and non-increasing otherwise (reverse strand).
C7_Monotone ==
    /\ BtopReturned =>
          NonDecreasing(ret.value.target) /\ NonDecreasing(ret.value.query)
    /\ (CigarReturned /\ ~Raised(ret.value)) =>
          NonDecreasing(ret.value.target) /\ NonDecreasing(ret.value.query)
    /\ MatrixEmitted =>
          /\ NonDecreasing(Get(result.coordinates).target)
          /\ IF QueryStart < QueryEnd
             THEN NonDecreasing(Get(result.coordinates).query)
             ELSE NonIncreasing(Get(result.coordinates).query)

\* A reverse-strand row was emitted whose query row decreases.
C7_Witness ==
    /\ MatrixEmitted
    /\ QueryStart >= QueryEnd
    /\ Len(Get(result.coordinates).query) > 2
    /\ ~NonDecreasing(Get(result.coordinates).query)

\* C8 as stated: the first column of an emitted matrix is (s. start - 1,
\* q. start - 1) under every program and on both strands.
C8_Original ==
    MatrixEmitted =>
        /\ Len(Get(result.coordinates).target) >= 1
        /\ Get(result.coordinates).target[1] = TargetStart
        /\ Get(result.coordinates).query[1] = QueryStart

\* C8 amended: an emitted matrix has at least one column; the query value of
\* its first column is q. start - 1 on a forward row and q. start on a
\* reverse row; the target value is s. start - 1 under a program other than
\* TBLASTN and TBLASTX, and 0 under those two.
C8_FirstColumn ==
    MatrixEmitted =>
        /\ Len(Get(result.coordinates).target) >= 1
        /\ Len(Get(result.coordinates).query) >= 1
        /\ Get(result.coordinates).query[1] =
              (IF QueryStart < QueryEnd THEN QueryStart ELSE QueryStart + 1)
        /\ Get(result.coordinates).target[1] =
              (IF self.metadata.Program \in {"TBLASTN", "TBLASTX"}
               THEN 0 ELSE TargetStart)

\* A TBLASTX row with s. start 4 was emitted with target offset 0, and its
\* query is on the reverse strand.
C8_Witness ==
    /\ MatrixEmitted
    /\ self.metadata.Program = "TBLASTX"
    /\ TargetStart = 3
    /\ QueryStart >= QueryEnd
    /\ Get(result.coordinates).target[1] = 0

\* The two rebasing rules, written out.
QueryRebased(row) ==
    [i \in 1..Len(row) |->
        IF QueryStart < QueryEnd THEN row[i] + QueryStart
        ELSE QueryStart - row[i] + 1]
TargetRebased(row) == [i \in 1..Len(row) |-> row[i] + TargetStart]

\* C9 as stated: exactly one of the two rules is applied to the decoded
\* matrix, never both.
C9_Original ==
    MatrixEmitted =>
        \/ Get(result.coordinates) =
              Matrix(RawMatrix.target, QueryRebased(RawMatrix.query))
        \/ Get(result.coordinates) =
              Matrix(TargetRebased(RawMatrix.target), RawMatrix.query)

\* C9 amended: the query rule is applied to every row with a trace-back
\* field, its forward or reverse form chosen by comparing the 0-based query
\* start with the query end; the target rule is applied as well exactly when
\* the program is neither TBLASTN nor TBLASTX.
C9_Rebasing ==
    MatrixEmitted =>
        /\ Get(result.coordinates).query = QueryRebased(RawMatrix.query)
        /\ Get(result.coordinates).target =
              (IF self.metadata.Program \in {"TBLASTN", "TBLASTX"}
               THEN RawMatrix.target ELSE TargetRebased(RawMatrix.target))

\* A FASTA row was emitted on which both rules changed the matrix.
C9_Witness ==
    /\ MatrixEmitted
    /\ self.metadata.Program = "FASTA"
    /\ Get(result.coordinates).query # RawMatrix.query
    /\ Get(result.coordinates).target # RawMatrix.target

\* C10: under a program whose target is reconstructed from start and end, a
\* target substring given with start and end yields the partially-known form
\* anchored at the 0-based start whose total length is the subject length
\* when that field is in the row and the end offset otherwise.
C10_TargetLength ==
    (RowEmitted /\ Has("subject seq") /\ Has("s. start") /\ Has("s. end")
       /\ self.metadata.Program \notin {"TBLASTN", "TBLASTX"})
        => result.target.seq =
             Some(SeqPartial(TargetStart, strip_gaps(Value("subject seq")),
                             IF Has("subject length")
                             THEN Some(int(Value("subject length")))
                             ELSE Some(TargetEnd)))

====
